---- MODULE Spec2Model ----
(***************************************************************************)
(* A model of the PomPov editor (jsxeaflist), builds beta1.0 and beta1.1.  *)
(* Program text is kept as strings; the string operations of the source   *)
(* (upper, strip, split, replace, startswith, zfill, int) are computed     *)
(* character by character.                                                 *)
(***************************************************************************)
EXTENDS Integers, Sequences, FiniteSets, TLC

(***************************** bounds **************************************)
\* number of program lines one run feeds to run_program
MaxProg == 4
\* number of lines the body buffer may hold
MaxBody == 2
\* number of passes of the loop that are explored
MaxPasses == 4
\* calls made on the storage when it is driven directly
MaxCalls == 2

(************************ string primitives ********************************)
LowerAlpha == "abcdefghijklmnopqrstuvwxyz"
UpperAlpha == "ABCDEFGHIJKLMNOPQRSTUVWXYZ"
Digits == "0123456789"

\* s[i] of the source: the one-character string at position i (1-based)
Ch(s, i) == SubSeq(s, i, i)

CharsOf(s) == {Ch(s, i) : i \in 1..Len(s)}

\* the table behind str.upper(), for the ASCII letters
UpperTable ==
    ("a" :> "A") @@ ("b" :> "B") @@ ("c" :> "C") @@ ("d" :> "D") @@ ("e" :> "E") @@
    ("f" :> "F") @@ ("g" :> "G") @@ ("h" :> "H") @@ ("i" :> "I") @@ ("j" :> "J") @@
    ("k" :> "K") @@ ("l" :> "L") @@ ("m" :> "M") @@ ("n" :> "N") @@ ("o" :> "O") @@
    ("p" :> "P") @@ ("q" :> "Q") @@ ("r" :> "R") @@ ("s" :> "S") @@ ("t" :> "T") @@
    ("u" :> "U") @@ ("v" :> "V") @@ ("w" :> "W") @@ ("x" :> "X") @@ ("y" :> "Y") @@
    ("z" :> "Z")

\* the same table read the other way (str.lower())
LowerTable ==
    ("A" :> "a") @@ ("B" :> "b") @@ ("C" :> "c") @@ ("D" :> "d") @@ ("E" :> "e") @@
    ("F" :> "f") @@ ("G" :> "g") @@ ("H" :> "h") @@ ("I" :> "i") @@ ("J" :> "j") @@
    ("K" :> "k") @@ ("L" :> "l") @@ ("M" :> "m") @@ ("N" :> "n") @@ ("O" :> "o") @@
    ("P" :> "p") @@ ("Q" :> "q") @@ ("R" :> "r") @@ ("S" :> "s") @@ ("T" :> "t") @@
    ("U" :> "u") @@ ("V" :> "v") @@ ("W" :> "w") @@ ("X" :> "x") @@ ("Y" :> "y") @@
    ("Z" :> "z")

UpperCh(c) == IF c \in DOMAIN UpperTable THEN UpperTable[c] ELSE c

LowerCh(c) == IF c \in DOMAIN LowerTable THEN LowerTable[c] ELSE c

RECURSIVE UpperS(_)
\* str.upper()
UpperS(s) == IF Len(s) = 0 THEN ""
             ELSE UpperCh(Ch(s, 1)) \o UpperS(SubSeq(s, 2, Len(s)))

RECURSIVE LowerS(_)
\* str.lower()
LowerS(s) == IF Len(s) = 0 THEN ""
             ELSE LowerCh(Ch(s, 1)) \o LowerS(SubSeq(s, 2, Len(s)))

\* the value of each digit character
DigitTable ==
    ("0" :> 0) @@ ("1" :> 1) @@ ("2" :> 2) @@ ("3" :> 3) @@ ("4" :> 4) @@
    ("5" :> 5) @@ ("6" :> 6) @@ ("7" :> 7) @@ ("8" :> 8) @@ ("9" :> 9)

\* str.isdigit() on one character
IsDigit(c) == c \in DOMAIN DigitTable

\* int(c) for one digit character
DigitVal(c) == DigitTable[c]

\* str(i) for i in range(10)
DigitStr(i) == Ch(Digits, i + 1)

\* str.startswith(p)
StartsWith(s, p) == Len(s) >= Len(p) /\ SubSeq(s, 1, Len(p)) = p

RECURSIVE FindFrom(_, _, _)
\* str.find(sub, i): the first position >= i of sub in s, 0 when there is none
FindFrom(s, sub, i) ==
    IF i + Len(sub) - 1 > Len(s) THEN 0
    ELSE IF SubSeq(s, i, i + Len(sub) - 1) = sub THEN i
    ELSE FindFrom(s, sub, i + 1)

\* str.find(sub), 1-based
Find(s, sub) == FindFrom(s, sub, 1)

\* sub in s
Contains(s, sub) == Find(s, sub) > 0

RECURSIVE Replace(_, _, _)
\* str.replace(old, new): every occurrence, left to right, not overlapping
Replace(s, old, new) ==
    LET i == Find(s, old)
    IN IF i = 0 THEN s
       ELSE SubSeq(s, 1, i - 1) \o new
              \o Replace(SubSeq(s, i + Len(old), Len(s)), old, new)

RECURSIVE SplitN(_, _, _)
\* str.split(sep, maxsplit): at most maxsplit cuts (maxsplit < 0: no limit)
SplitN(s, sep, maxsplit) ==
    LET i == Find(s, sep)
    IN IF i = 0 \/ maxsplit = 0 THEN <<s>>
       ELSE <<SubSeq(s, 1, i - 1)>>
              \o SplitN(SubSeq(s, i + Len(sep), Len(s)), sep, maxsplit - 1)

\* str.split(sep)
Split(s, sep) == SplitN(s, sep, -1)

RECURSIVE LStrip(_)
LStrip(s) == IF Len(s) > 0 /\ Ch(s, 1) = " " THEN LStrip(SubSeq(s, 2, Len(s))) ELSE s

RECURSIVE RStripCh(_, _)
\* str.rstrip(c) for a one-character argument
RStripCh(s, c) == IF Len(s) > 0 /\ Ch(s, Len(s)) = c
                  THEN RStripCh(SubSeq(s, 1, Len(s) - 1), c) ELSE s

\* str.strip(): the program text holds no whitespace but the space
Strip(s) == RStripCh(LStrip(s), " ")

RECURSIVE ZFill(_, _)
\* str.zfill(width) of a string without a sign
ZFill(s, width) == IF Len(s) >= width THEN s ELSE ZFill("0" \o s, width)

RECURSIVE Filter(_, _)
\* ''.join([c for c in s if c in keep])
Filter(s, keep) == IF Len(s) = 0 THEN ""
                   ELSE (IF Ch(s, 1) \in keep THEN Ch(s, 1) ELSE "")
                          \o Filter(SubSeq(s, 2, Len(s)), keep)

RECURSIVE DigitsValue(_)
\* the value of a non-empty string of digits
DigitsValue(s) == IF Len(s) = 0 THEN 0
                  ELSE 10 * DigitsValue(SubSeq(s, 1, Len(s) - 1)) + DigitVal(Ch(s, Len(s)))

AllDigits(s) == Len(s) > 0 /\ \A i \in 1..Len(s) : IsDigit(Ch(s, i))

\* int(s) accepts surrounding blanks, one sign and then digits only
IntOk(s) == LET t == Strip(s)
            IN IF Len(t) > 0 /\ Ch(t, 1) \in {"+", "-"}
               THEN AllDigits(SubSeq(t, 2, Len(t)))
               ELSE AllDigits(t)

\* int(s) where IntOk(s); elsewhere int raises ValueError
IntVal(s) == LET t == Strip(s)
             IN IF Ch(t, 1) = "-" THEN 0 - DigitsValue(SubSeq(t, 2, Len(t)))
                ELSE IF Ch(t, 1) = "+" THEN DigitsValue(SubSeq(t, 2, Len(t)))
                ELSE DigitsValue(t)

(********************* the two builds of the editor ************************)
\* beta1.0 is src/jsxeaflist-beta1.0.py, beta1.1 is src/jsxeaflsit-beta1.1.py
Versions == {10, 11}

\* beta1.1 upper-cases a token where beta1.0 uses it as written
Norm(v, s) == IF v = 11 THEN UpperS(s) ELSE s

\* a literal of the source: s10 as beta1.0 writes it, s11 as beta1.1 does
Lit(v, s10, s11) == IF v = 11 THEN s11 ELSE s10

cxba_bits == 2

\* self.disk_map, as the last component of each path
disk_map == [vol \in {"C:", "D:"} |-> IF vol = "C:" THEN "C_drive" ELSE "D_drive"]

(****************************** addresses **********************************)
\* a padding that keeps the letters of the token behind its first character
PadAddressKeepsLetters(v, addr) ==
    IF StartsWith(Norm(v, addr), "P")
    THEN LET rest == SubSeq(addr, 2, Len(addr))
         IN "P" \o ZFill(rest, Len(rest) + cxba_bits)
    ELSE addr

\* _pad_address
PadAddress(v, addr) ==
    IF StartsWith(Norm(v, addr), "P")
    THEN LET num_part == Filter(addr, (DOMAIN DigitTable) \cup {"X"})
         IN "P" \o ZFill(num_part, Len(num_part) + cxba_bits)
    ELSE addr

\* _resolve_dynamic_addr
ResolveDynamicAddr(v, addr) ==
    IF ~Contains(addr, "X")
    THEN <<PadAddress(v, Norm(v, addr))>>
    ELSE [i \in 1..10 |-> PadAddress(v, Replace(Norm(v, addr), "X", DigitStr(i - 1)))]

RECURSIVE CountOps(_, _)
\* the scan of _parse_operation: -1 for each pom mark, +1 for each pov mark
CountOps(v, clean_op) ==
    IF Len(clean_op) = 0 THEN 0
    ELSE (IF Ch(clean_op, 1) = Lit(v, "m", "M") THEN -1
          ELSE IF Ch(clean_op, 1) = Lit(v, "v", "V") THEN 1 ELSE 0)
           + CountOps(v, SubSeq(clean_op, 2, Len(clean_op)))

\* _parse_operation
ParseOperation(v, op_str) ==
    CountOps(v, Norm(v, Replace(Replace(Replace(op_str, "(", ""), ")", ""), "-", "")))

(******************************* storage ***********************************)
\* dict.get(key, 0)
MapGet(f, k) == IF k \in DOMAIN f THEN f[k] ELSE 0

\* dict[key] = val
MapPut(f, k, val) == [x \in (DOMAIN f) \cup {k} |-> IF x = k THEN val ELSE f[x]]

\* the empty dict
EmptyMap == [x \in {} |-> 0]

IsDiskTarget(t) == StartsWith(t, "C:") \/ StartsWith(t, "D:")

\* os.path.join(disk_path, f"{target.replace(':', '_')}.json")
ConfigFile(t) == disk_map[Split(t, ":")[1] \o ":"] \o "/" \o Replace(t, ":", "_") \o ".json"

\* the directory of a path made by ConfigFile
DirOf(path) == Split(path, "/")[1]

\* An editor is the record of what the handlers read and change:
\*   editor_memory       self.editor_memory
\*   files, dirs         the records and directories below the storage root
\*   terminate_constant  self.terminate_constant
\*   err                 the exception a handler has raised, "none" before
\*   last_write          history: the value of the last completed write to each cell
\* a read that looks the token up as written, without padding it
GetTargetValueUnpadded(v, e, target0) ==
    LET target == Norm(v, target0)
    IN IF StartsWith(target, "P")
       THEN [err |-> "none", val |-> MapGet(e.editor_memory, target)]
       ELSE IF IsDiskTarget(target)
       THEN [err |-> "none", val |-> MapGet(e.files, ConfigFile(target))]
       ELSE [err |-> "ValueError", val |-> 0]

\* _get_target_value: [err, val]
GetTargetValue(v, e, target0) ==
    LET target == Norm(v, target0)
    IN IF StartsWith(target, "P")
       THEN [err |-> "none", val |-> MapGet(e.editor_memory, PadAddress(v, target))]
       ELSE IF IsDiskTarget(target)
       THEN [err |-> "none", val |-> MapGet(e.files, ConfigFile(target))]
       ELSE [err |-> "ValueError", val |-> 0]

\* a write that stores under the padded token before it reads the address
SetTargetValueStoresFirst(v, e, target0, value, is_update) ==
    LET target == Norm(v, target0)
        target_padded == PadAddress(v, target)
        stored == [e EXCEPT !.editor_memory = MapPut(@, target_padded, value)]
        cur == GetTargetValue(v, e, target)
        final_val == IF ~is_update THEN value ELSE cur.val + value
        disk_key == IF v = 11 THEN target_padded ELSE target
    IN IF e.err # "none" THEN e
       ELSE IF cur.err # "none" THEN [stored EXCEPT !.err = cur.err]
       ELSE IF StartsWith(target, "P")
       THEN [e EXCEPT !.editor_memory = MapPut(@, target_padded, final_val),
                      !.last_write = MapPut(@, target_padded, final_val)]
       ELSE IF DirOf(ConfigFile(disk_key)) \in e.dirs
       THEN [e EXCEPT !.files = MapPut(@, ConfigFile(disk_key), final_val),
                      !.last_write = MapPut(@, ConfigFile(disk_key), final_val)]
       ELSE [e EXCEPT !.err = "FileNotFoundError"]

\* a write that stores the value it is given, whatever is_update says
SetTargetValueOverwrites(v, e, target0, value, is_update) ==
    LET target == Norm(v, target0)
        target_padded == PadAddress(v, target)
        cur == GetTargetValue(v, e, target)
        disk_key == IF v = 11 THEN target_padded ELSE target
    IN IF e.err # "none" THEN e
       ELSE IF cur.err # "none" THEN [e EXCEPT !.err = cur.err]
       ELSE IF StartsWith(target, "P")
       THEN [e EXCEPT !.editor_memory = MapPut(@, target_padded, value),
                      !.last_write = MapPut(@, target_padded, value)]
       ELSE IF DirOf(ConfigFile(disk_key)) \in e.dirs
       THEN [e EXCEPT !.files = MapPut(@, ConfigFile(disk_key), value),
                      !.last_write = MapPut(@, ConfigFile(disk_key), value)]
       ELSE [e EXCEPT !.err = "FileNotFoundError"]

\* where _set_target_value stores: "mem", "disk" or "nowhere"
StoreKind(v, target, target_padded) ==
    LET t == IF v = 11 THEN target_padded ELSE target
    IN IF StartsWith(t, "P") THEN "mem"
       ELSE IF IsDiskTarget(t) THEN "disk" ELSE "nowhere"

\* _set_target_value
SetTargetValue(v, e, target0, value, is_update) ==
    LET target == Norm(v, target0)
        target_padded == PadAddress(v, target)
        cur == GetTargetValue(v, e, target)
        final_val == IF ~is_update THEN value ELSE cur.val + value
        kind == StoreKind(v, target, target_padded)
        disk_key == IF v = 11 THEN target_padded ELSE target
    IN IF e.err # "none" THEN e
       ELSE IF cur.err # "none" THEN [e EXCEPT !.err = cur.err]
       ELSE IF kind = "mem"
       THEN [e EXCEPT !.editor_memory = MapPut(@, target_padded, final_val),
                      !.last_write = MapPut(@, target_padded, final_val)]
       ELSE IF kind = "disk"
       THEN IF DirOf(ConfigFile(disk_key)) \in e.dirs
            THEN [e EXCEPT !.files = MapPut(@, ConfigFile(disk_key), final_val),
                           !.last_write = MapPut(@, ConfigFile(disk_key), final_val)]
            ELSE [e EXCEPT !.err = "FileNotFoundError"]
       ELSE e

RECURSIVE SetEach(_, _, _, _)
\* for addr in dynamic_addrs: self._set_target_value(addr, net_op)
SetEach(v, e, addrs, net_op) ==
    IF Len(addrs) = 0 \/ e.err # "none" THEN e
    ELSE SetEach(v, SetTargetValue(v, e, Head(addrs), net_op, FALSE), Tail(addrs), net_op)

\* _init_disk
InitDisk(e) == [e EXCEPT !.dirs = @ \cup {disk_map[vol] : vol \in DOMAIN disk_map}]


\* the first directory shutdown's loop over disk_map.values() meets, then the next
DiskPaths == <<disk_map["C:"], disk_map["D:"]>>

\* a map without the keys in drop
Without(f, drop) == [x \in (DOMAIN f) \ drop |-> f[x]]

\* one turn of shutdown's loop: os.listdir, os.remove of each file, os.rmdir
RemoveDir(e, path) ==
    LET inside == {file \in DOMAIN e.files : DirOf(file) = path}
    IN IF e.err # "none" THEN e
       ELSE IF path \notin e.dirs THEN [e EXCEPT !.err = "FileNotFoundError"]
       ELSE [e EXCEPT !.files = Without(@, inside),
                      !.last_write = Without(@, inside),
                      !.dirs = @ \ {path}]

\* shutdown
Shutdown(e) ==
    LET cleared == [e EXCEPT !.editor_memory = EmptyMap,
                             !.last_write = Without(@, DOMAIN e.editor_memory)]
    IN RemoveDir(RemoveDir(cleared, DiskPaths[1]), DiskPaths[2])

(************************** directive handlers *****************************)
\* ord(c) for the characters program text is written in
Ord(c) == IF c \in DOMAIN UpperTable
          THEN 96 + Find(LowerAlpha, c)
          ELSE IF c \in DOMAIN LowerTable
          THEN 64 + Find(UpperAlpha, c)
          ELSE IF IsDigit(c) THEN 48 + DigitVal(c)
          ELSE IF c = " " THEN 32
          ELSE IF c = ":" THEN 58
          ELSE IF c = "]" THEN 93
          ELSE IF c = "|" THEN 124
          ELSE 63

\* one turn of parse_sjxeaflist's loop over params
BindParam(v, e, param) ==
    IF e.err # "none" THEN e
    ELSE IF Contains(param, "-")
    THEN LET parts == Split(param, "-")
             val_char == Norm(v, parts[2])
         IN IF Len(parts) # 2 THEN [e EXCEPT !.err = "ValueError"]
            ELSE IF Len(val_char) # 1 THEN [e EXCEPT !.err = "TypeError"]
            ELSE SetTargetValue(v, e, parts[1], Ord(val_char), FALSE)
    ELSE SetTargetValue(v, e, param, 0, FALSE)

RECURSIVE BindParams(_, _, _)
BindParams(v, e, params) ==
    IF Len(params) = 0 THEN e
    ELSE BindParams(v, BindParam(v, e, Head(params)), Tail(params))

\* parse_sjxeaflist
ParseSjxeaflist(v, e, params) == BindParams(v, InitDisk(e), params)

RECURSIVE InitPairs(_, _, _, _)
\* parse_loop_header's loop: for i in range(0, len(loop_ops), 2), here from 1
InitPairs(v, e, loop_ops, i) ==
    IF e.err # "none" \/ i > Len(loop_ops) THEN e
    ELSE IF i + 1 > Len(loop_ops) THEN [e EXCEPT !.err = "IndexError"]
    ELSE InitPairs(v,
                   SetTargetValue(v, e, loop_ops[i],
                                  ParseOperation(v, loop_ops[i + 1]), FALSE),
                   loop_ops, i + 2)

\* parse_loop_header
ParseLoopHeader(v, e, header) ==
    LET bare == Replace(Replace(Replace(header, Lit(v, "kaj>:eaa ", "KAJ>:EAA "), ""),
                                Lit(v, ":eas ", ":EAS "), ""), Lit(v, ":eau ", ":EAU "), "")
        parts == Split(bare, Lit(v, "{g ", "{G "))
        loop_ops == Split(parts[1], " ")
        constant == Replace(parts[2], "]:", "")
    IN IF Len(parts) < 2 THEN [e EXCEPT !.err = "IndexError"]
       ELSE IF ~IntOk(constant) THEN [e EXCEPT !.err = "ValueError"]
       ELSE InitPairs(v, [e EXCEPT !.terminate_constant = IntVal(constant)],
                      loop_ops, 1)

\* the ordinary set directive of run_program: one write, no expansion
OrdinarySet(v, e, line) ==
    LET parts == SplitN(line, " ", 2)
    IN IF Len(parts) < 3 THEN [e EXCEPT !.err = "IndexError"]
       ELSE SetTargetValue(v, e, parts[2],
                           ParseOperation(v, RStripCh(parts[3], "]")), FALSE)

\* parse_loop_body, the "u -a" branch
UpdateArithmetic(v, e, line) ==
    LET by_s == Split(line, Lit(v, "s ", "S "))
        by_cxba == Split(line, Lit(v, "cxba ", "CXBA "))
        target == Split(by_s[2], ":")[1]
        offset == Split(by_cxba[2], "|")[1]
    IN IF Len(by_s) < 2 \/ Len(by_cxba) < 2 THEN [e EXCEPT !.err = "IndexError"]
       ELSE IF ~IntOk(offset) THEN [e EXCEPT !.err = "ValueError"]
       ELSE SetTargetValue(v, e, target, IntVal(offset), TRUE)

\* parse_loop_body, the "s " branch
BodySet(v, e, line) ==
    LET parts == SplitN(line, " ", 2)
    IN IF Len(parts) < 3 THEN [e EXCEPT !.err = "IndexError"]
       ELSE SetEach(v, e, ResolveDynamicAddr(v, parts[2]),
                    ParseOperation(v, RStripCh(parts[3], "]")))

\* parse_loop_body, the "u CN" branch
IncrementMarker(v, e, line) ==
    LET target == Split(line, Lit(v, "u ", "U "))[2]
        cur == GetTargetValue(v, e, target)
    IN IF cur.err # "none" THEN [e EXCEPT !.err = cur.err]
       ELSE SetTargetValue(v, e, target, cur.val + 1, FALSE)

\* which branch parse_loop_body takes for a line of the body
BodyKind(v, raw) ==
    LET line == Norm(v, Strip(raw))
    IN IF Len(line) = 0 THEN "blank"
       ELSE IF StartsWith(line, Lit(v, "u -a", "U -A")) THEN "update"
       ELSE IF StartsWith(line, Lit(v, "s ", "S ")) THEN "set"
       ELSE IF StartsWith(line, Lit(v, "u CN", "U CN")) THEN "marker"
       ELSE "ignored"

\* one turn of parse_loop_body's loop over the body
ExecLine(v, e, raw) ==
    LET line == Norm(v, Strip(raw))
        kind == BodyKind(v, raw)
    IN IF kind = "update" THEN UpdateArithmetic(v, e, line)
       ELSE IF kind = "set" THEN BodySet(v, e, line)
       ELSE IF kind = "marker" THEN IncrementMarker(v, e, line)
       ELSE e

\* which branch run_program takes for a line of the program
Classify(v, raw, collecting) ==
    LET line == Strip(raw)
    IN IF Len(line) = 0 THEN "blank"
       ELSE IF StartsWith(line, Lit(v, "sjxeaflist", "SJXEAF LIST")) THEN "setup"
       ELSE IF StartsWith(line, Lit(v, "kaj", "KAJ")) THEN "header"
       ELSE IF line = Lit(v, ":cod -|", ":COD -|") THEN "open"
       ELSE IF line = "|-]" THEN "close"
       ELSE IF collecting THEN "collect"
       ELSE IF StartsWith(line, Lit(v, "s ", "S ")) THEN "set"
       ELSE "ignored"

\* params = line.split(" ")[1:]
SetupParams(line) == Tail(Split(line, " "))

\* the handler run_program calls for a line of the program, if it calls one
Dispatch(v, e, raw, collecting) ==
    LET line == Strip(raw)
        kind == Classify(v, raw, collecting)
    IN IF kind = "setup" THEN ParseSjxeaflist(v, e, SetupParams(line))
       ELSE IF kind = "header" THEN ParseLoopHeader(v, e, line)
       ELSE IF kind = "set" THEN OrdinarySet(v, e, line)
       ELSE e


(***************************** program text *******************************)
\* The lines a program is made of, as beta1.0's example program writes them:
\* keywords in small letters, addresses in capitals.
BaseLines == {
    "s P2M81 pom",
    "s P281 pov",
    "  s P1X pom-pom(pov]",
    "s C:F pov-pov",
    "s Q1 pov",
    "kaj>:eaa P2M83 pov-pom{g 1]:",
    "kaj>:eaa P2M81 pov-pom{g 3]:",
    "kaj>:eaa P2M81 pov-pom {g 3]:eau P2M30",
    ":cod -|",
    "|-]",
    "u -a -|s P2M81:cxba 1|-]",
    "u -a -|s P2M81:cxba -2|-]",
    "u CN1",
    "sjxeaflist P1-g C:F",
    "sjxeaf list P1-g",
    "" }

\* lines that are also fed in the other build's spelling
OtherCase == {"s P2M81 pom", "u -a -|s P2M81:cxba 1|-]"}

\* the lines fed to beta1.0: in its own spelling, and a few in capitals
Lines10 == BaseLines \cup {UpperS(l) : l \in OtherCase}

\* the lines fed to beta1.1: in capitals, as it spells its keywords, and a few
\* as beta1.0 spells them
Lines11 == {UpperS(l) : l \in BaseLines} \cup OtherCase

Lines(v) == IF v = 11 THEN Lines11 ELSE Lines10

\* the cell the example header initialises next to the counter
ConditionAddress == "P2M82"

\* the counter parse_loop_body reads after each pass
CounterAddress == "P2M81"

(******************************* the state *********************************)
VARIABLES
    ver,                \* the build that runs: 10 (beta1.0) or 11 (beta1.1)
    editor_memory,      \* self.editor_memory
    files,              \* the records below the storage root: path -> value
    dirs,               \* the directories below the storage root that exist
    terminate_constant, \* self.terminate_constant
    loop_running,       \* self.loop_running
    loop_header,        \* run_program's loop_header
    loop_body,          \* run_program's loop_body
    in_loop,            \* run_program's in_loop
    in_loop_body,       \* run_program's in_loop_body
    pc,                 \* "fetch", "body", "test" or "done"
    body_idx,           \* the body line parse_loop_body executes next
    loop_count,         \* parse_loop_body's loop_count
    nread,              \* the number of program lines read so far
    raised,             \* the exception a directive raised, "none" before
    outcome,            \* "running", "returned", or the exception run_program raised
    last_write,         \* history: cell -> value of its last completed write
    entry_counter,      \* history: the counter's value when the loop was activated
    steady,             \* history: every finished pass added exactly 1 to the counter
    calls               \* history: the calls made on the storage when it is driven directly

vars == <<ver, editor_memory, files, dirs, terminate_constant, loop_running,
          loop_header, loop_body, in_loop, in_loop_body, pc, body_idx, loop_count,
          nread, raised, outcome, last_write, entry_counter, steady, calls>>

\* the editor the handlers work on
Ed == [editor_memory |-> editor_memory, files |-> files, dirs |-> dirs,
       terminate_constant |-> terminate_constant, err |-> "none",
       last_write |-> last_write]

\* a test that asks for more than the constant
TestStopsStrict(v, e) ==
    GetTargetValue(v, e, CounterAddress).val > e.terminate_constant

\* p2m81_val = self._get_target_value("P2M81")
CounterValue(v, e) == GetTargetValue(v, e, CounterAddress).val

\* the test after a pass: p2m81_val >= self.terminate_constant
TestStops(v, e) == CounterValue(v, e) >= e.terminate_constant

\* __init__; the storage root may or may not hold the directories of a former run
Init ==
    /\ ver \in Versions
    /\ editor_memory = EmptyMap
    /\ files = EmptyMap
    /\ dirs \in {{}, {disk_map[vol] : vol \in DOMAIN disk_map}}
    /\ terminate_constant = 0
    /\ loop_running = FALSE
    /\ loop_header = ""
    /\ loop_body = <<>>
    /\ in_loop = FALSE
    /\ in_loop_body = FALSE
    /\ pc = "fetch"
    /\ body_idx = 0
    /\ loop_count = 0
    /\ nread = 0
    /\ raised = "none"
    /\ outcome = "running"
    /\ last_write = EmptyMap
    /\ entry_counter = 0
    /\ steady = TRUE
    /\ calls = <<>>

\* the editor's fields take the values of e
Install(e) ==
    /\ editor_memory' = e.editor_memory
    /\ files' = e.files
    /\ dirs' = e.dirs
    /\ terminate_constant' = e.terminate_constant
    /\ last_write' = e.last_write

\* How run_program leaves when a handler has raised e.err: beta1.1 catches
\* ValueError, runs shutdown and returns; every other exception, and every
\* exception in beta1.0, leaves run_program at once.
Caught(v, e) == v = 11 /\ e.err = "ValueError"

AfterRaise(v, e) == IF Caught(v, e) THEN Shutdown([e EXCEPT !.err = "none"]) ELSE e

RaiseOutcome(v, e) ==
    IF Caught(v, e)
    THEN (IF AfterRaise(v, e).err = "none" THEN "returned" ELSE AfterRaise(v, e).err)
    ELSE e.err

\* the part of every step of run_program that follows a handler: go on with
\* the next line, or leave by the exception
Continue(e, next_pc) ==
    IF e.err = "none"
    THEN /\ Install(e)
         /\ pc' = next_pc
         /\ UNCHANGED <<raised, outcome>>
    ELSE /\ Install(AfterRaise(ver, e))
         /\ pc' = "done"
         /\ raised' = e.err
         /\ outcome' = RaiseOutcome(ver, e)

\* the line a step reads: for line in program
Reads(line, kind) ==
    /\ pc = "fetch"
    /\ nread < MaxProg
    /\ line \in Lines(ver)
    /\ Classify(ver, line, in_loop_body) = kind
    /\ nread' = nread + 1

(****************************** the steps **********************************)
\* a blank line, or a line no branch of run_program matches
SkipLine ==
    \E line \in Lines(ver) :
        /\ \/ Reads(line, "blank")
           \/ Reads(line, "ignored")
        /\ UNCHANGED <<calls, ver, editor_memory, files, dirs, terminate_constant,
                       loop_running, loop_header, loop_body, in_loop, in_loop_body,
                       pc, body_idx, loop_count, raised, outcome, last_write,
                       entry_counter, steady>>

\* run_program, the setup branch
Setup ==
    \E line \in Lines(ver) :
        /\ Reads(line, "setup")
        /\ Continue(Dispatch(ver, Ed, line, in_loop_body), "fetch")
        /\ UNCHANGED <<calls, ver, loop_running, loop_header, loop_body, in_loop,
                       in_loop_body, body_idx, loop_count, entry_counter, steady>>

\* run_program, the loop header branch
Header ==
    \E line \in Lines(ver) :
        LET e == Dispatch(ver, Ed, line, in_loop_body)
        IN /\ Reads(line, "header")
           /\ loop_header' = Strip(line)
           /\ Continue(e, "fetch")
           /\ in_loop' = IF e.err = "none" THEN TRUE ELSE in_loop
           /\ UNCHANGED <<calls, ver, loop_running, loop_body, in_loop_body, body_idx,
                          loop_count, entry_counter, steady>>

\* run_program, the body-open branch
BodyOpen ==
    \E line \in Lines(ver) :
        /\ Reads(line, "open")
        /\ in_loop_body' = TRUE
        /\ UNCHANGED <<calls, ver, editor_memory, files, dirs, terminate_constant,
                       loop_running, loop_header, loop_body, in_loop, pc, body_idx,
                       loop_count, raised, outcome, last_write, entry_counter,
                       steady>>

\* run_program, the branch that collects a line of the body
Collect ==
    \E line \in Lines(ver) :
        /\ Reads(line, "collect")
        /\ Len(loop_body) < MaxBody
        /\ loop_body' = Append(loop_body, Strip(line))
        /\ UNCHANGED <<calls, ver, editor_memory, files, dirs, terminate_constant,
                       loop_running, loop_header, in_loop, in_loop_body, pc,
                       body_idx, loop_count, raised, outcome, last_write,
                       entry_counter, steady>>

\* run_program, the body-close branch outside a body: only in_loop is reset
CloseIdle ==
    \E line \in Lines(ver) :
        /\ Reads(line, "close")
        /\ ~in_loop_body
        /\ in_loop' = FALSE
        /\ UNCHANGED <<calls, ver, editor_memory, files, dirs, terminate_constant,
                       loop_running, loop_header, loop_body, in_loop_body, pc,
                       body_idx, loop_count, raised, outcome, last_write,
                       entry_counter, steady>>

\* a body-close that has the loop evaluate its test before the first pass
BodyCloseTestsFirst ==
    \E line \in Lines(ver) :
        /\ Reads(line, "close")
        /\ in_loop_body
        /\ in_loop_body' = FALSE
        /\ loop_running' = TRUE
        /\ loop_count' = 1
        /\ body_idx' = 1
        /\ pc' = "test"
        /\ entry_counter' = CounterValue(ver, Ed)
        /\ steady' = TRUE
        /\ UNCHANGED <<calls, ver, editor_memory, files, dirs, terminate_constant,
                       loop_header, loop_body, in_loop, raised, outcome, last_write>>

\* run_program, the body-close branch after a body: parse_loop_body is entered
\* and begins its first pass
BodyClose ==
    \E line \in Lines(ver) :
        /\ Reads(line, "close")
        /\ in_loop_body
        /\ in_loop_body' = FALSE
        /\ loop_running' = TRUE
        /\ loop_count' = 1
        /\ body_idx' = 1
        /\ pc' = IF Len(loop_body) = 0 THEN "test" ELSE "body"
        /\ entry_counter' = CounterValue(ver, Ed)
        /\ steady' = TRUE
        /\ UNCHANGED <<calls, ver, editor_memory, files, dirs, terminate_constant,
                       loop_header, loop_body, in_loop, raised, outcome, last_write>>

\* run_program, the ordinary set branch
SetLine ==
    \E line \in Lines(ver) :
        /\ Reads(line, "set")
        /\ Continue(Dispatch(ver, Ed, line, in_loop_body), "fetch")
        /\ UNCHANGED <<calls, ver, loop_running, loop_header, loop_body, in_loop,
                       in_loop_body, body_idx, loop_count, entry_counter, steady>>

\* parse_loop_body: one line of the body is executed
ExecBodyLine ==
    /\ pc = "body"
    /\ Continue(ExecLine(ver, Ed, loop_body[body_idx]),
                IF body_idx = Len(loop_body) THEN "test" ELSE "body")
    /\ body_idx' = body_idx + 1
    /\ UNCHANGED <<calls, ver, loop_running, loop_header, loop_body, in_loop, in_loop_body,
                   loop_count, nread, entry_counter, steady>>

\* a loop exit after which run_program keeps the body it has just executed
LoopExitKeepsBody ==
    /\ pc = "test"
    /\ TestStops(ver, Ed)
    /\ loop_running' = FALSE
    /\ in_loop' = FALSE
    /\ pc' = "fetch"
    /\ steady' = (steady /\ CounterValue(ver, Ed) = entry_counter + loop_count)
    /\ UNCHANGED <<calls, ver, editor_memory, files, dirs, terminate_constant,
                   loop_header, loop_body, in_loop_body, body_idx, loop_count, nread,
                   raised, outcome, last_write, entry_counter>>

\* a loop that tests the counter after every line of the body
LoopExitAnywhere ==
    /\ pc \in {"test", "body"}
    /\ TestStops(ver, Ed)
    /\ loop_running' = FALSE
    /\ loop_body' = <<>>
    /\ in_loop' = FALSE
    /\ pc' = "fetch"
    /\ steady' = FALSE
    /\ UNCHANGED <<calls, ver, editor_memory, files, dirs, terminate_constant, loop_header,
                   in_loop_body, body_idx, loop_count, nread, raised, outcome,
                   last_write, entry_counter>>

\* parse_loop_body: the test after a pass stops the loop; run_program goes on
LoopExit ==
    /\ pc = "test"
    /\ TestStops(ver, Ed)
    /\ loop_running' = FALSE
    /\ loop_body' = <<>>
    /\ in_loop' = FALSE
    /\ pc' = "fetch"
    /\ steady' = (steady /\ CounterValue(ver, Ed) = entry_counter + loop_count)
    /\ UNCHANGED <<calls, ver, editor_memory, files, dirs, terminate_constant, loop_header,
                   in_loop_body, body_idx, loop_count, nread, raised, outcome,
                   last_write, entry_counter>>

\* parse_loop_body: the test after a pass fails; the next pass begins
LoopAgain ==
    /\ pc = "test"
    /\ ~TestStops(ver, Ed)
    /\ loop_count < MaxPasses
    /\ loop_count' = loop_count + 1
    /\ body_idx' = 1
    /\ pc' = IF Len(loop_body) = 0 THEN "test" ELSE "body"
    /\ steady' = (steady /\ CounterValue(ver, Ed) = entry_counter + loop_count)
    /\ UNCHANGED <<calls, ver, editor_memory, files, dirs, terminate_constant, loop_running,
                   loop_header, loop_body, in_loop, in_loop_body, nread, raised,
                   outcome, last_write, entry_counter>>

\* run_program: the program is exhausted, shutdown runs
EndOfInput ==
    /\ pc = "fetch"
    /\ Install(Shutdown(Ed))
    /\ pc' = "done"
    /\ outcome' = IF Shutdown(Ed).err = "none" THEN "returned" ELSE Shutdown(Ed).err
    /\ UNCHANGED <<calls, ver, loop_running, loop_header, loop_body, in_loop, in_loop_body,
                   body_idx, loop_count, nread, raised, entry_counter, steady>>

Next ==
    \/ SkipLine
    \/ Setup
    \/ Header
    \/ BodyOpen
    \/ Collect
    \/ CloseIdle
    \/ BodyClose
    \/ SetLine
    \/ ExecBodyLine
    \/ LoopExit
    \/ LoopAgain
    \/ EndOfInput

Spec == Init /\ [][Next]_vars

(************************ the storage, driven directly **********************)
\* the addresses and the values a caller of _set_target_value passes
CallTargets == {"P2M81", "P281", "C:F", "Q1"}

CallValues == {-1, 2}

\* a call of _set_target_value(target, value, is_update) on the editor
StorageWrite ==
    \E target \in CallTargets, value \in CallValues, is_update \in BOOLEAN :
        LET e == SetTargetValue(ver, Ed, target, value, is_update)
        IN /\ Len(calls) < MaxCalls
           /\ Install(e)
           /\ raised' = e.err
           /\ calls' = Append(calls, [op |-> "write", target |-> target,
                                      value |-> value, is_update |-> is_update])
           /\ UNCHANGED <<ver, loop_running, loop_header, loop_body, in_loop,
                          in_loop_body, pc, body_idx, loop_count, nread, outcome,
                          entry_counter, steady>>

\* a call of shutdown() on the editor
StorageShutdown ==
    LET e == Shutdown(Ed)
    IN /\ Len(calls) < MaxCalls
       /\ Install(e)
       /\ raised' = e.err
       /\ calls' = Append(calls, [op |-> "shutdown", target |-> "",
                                  value |-> 0, is_update |-> FALSE])
       /\ UNCHANGED <<ver, loop_running, loop_header, loop_body, in_loop,
                      in_loop_body, pc, body_idx, loop_count, nread, outcome,
                      entry_counter, steady>>

StorageNext ==
    \/ StorageWrite
    \/ StorageShutdown

\* an editor just constructed, and any sequence of calls on its storage
StorageSpec == Init /\ [][StorageNext]_vars

(******************************* claims ***********************************)
\* the cells of an editor, and the exception it has met
Cells(e) == <<e.editor_memory, e.files, e.err>>

\* the editor after run_program has dealt with one line, its except clause included
AfterLine(v, e, raw, collecting) ==
    LET after == Dispatch(v, e, raw, collecting)
    IN IF after.err = "none" THEN after
       ELSE [AfterRaise(v, after) EXCEPT !.err = RaiseOutcome(v, after)]

\* the target and the delta of a set line "s ADDR EXPR]"
SetTargetOf(line) == SplitN(line, " ", 2)[2]

SetDeltaOf(v, line) == ParseOperation(v, RStripCh(SplitN(line, " ", 2)[3], "]"))

\* the address holds exactly one wildcard marker
OneWildcard(t) == Len(Filter(t, {"X"})) = 1

\* the ten addresses a wildcard address stands for
Concrete(t) == [i \in 1..10 |-> Replace(t, "X", DigitStr(i - 1))]

\* the body line parse_loop_body is about to execute, as it reads it
BodyLine == Norm(ver, Strip(loop_body[body_idx]))

\* C1: every run of run_program ends by returning normally, with the memory
\* mapping empty and no persisted record or per-volume directory left.
C1_RunReturnsAfterShutdown ==
    pc = "done" =>
        /\ outcome = "returned"
        /\ editor_memory = EmptyMap
        /\ files = EmptyMap
        /\ dirs = {}

\* C2: when a directive raises, no later line runs, shutdown has emptied the
\* memory mapping and removed the persisted records, and run_program leaves
\* with that error instead of returning.
C2_FatalErrorSurfacesAfterShutdown ==
    (pc = "done" /\ raised # "none") =>
        /\ outcome = raised
        /\ editor_memory = EmptyMap
        /\ files = EmptyMap

\* C3: when the counter held 0 at activation, the constant K is at least 1 and
\* every pass so far, this one included, added exactly 1 to the counter, the
\* test stops the loop exactly at the end of pass K: the loop makes K passes.
C3_ExactlyKPasses ==
    [][(/\ pc = "test"
        /\ entry_counter = 0
        /\ terminate_constant >= 1
        /\ steady
        /\ CounterValue(ver, Ed) = loop_count)
       => (loop_running' = FALSE <=> loop_count = terminate_constant)]_vars

\* C3 witness: a loop entered with the counter at 0 has made exactly 3 passes
\* of +1 and stopped on the constant 3.
C3_Witness ==
    /\ pc = "fetch"
    /\ ~loop_running
    /\ entry_counter = 0
    /\ steady
    /\ terminate_constant = 3
    /\ loop_count = 3
    /\ CounterValue(ver, Ed) = 3

\* C4: the running flag falls only at the end of a full pass over the body, and
\* there exactly when the counter read at that moment is >= the constant
\* (more than the constant stops the loop too); a counter that is >= the
\* constant in the middle of a pass stops nothing.
C4_StopsOnlyAfterFullPass ==
    [][/\ (loop_running /\ ~loop_running') =>
              /\ pc = "test"
              /\ body_idx = Len(loop_body) + 1
              /\ CounterValue(ver, Ed) >= terminate_constant
       /\ (pc = "test" /\ CounterValue(ver, Ed) >= terminate_constant) => ~loop_running'
       /\ (pc = "test" /\ CounterValue(ver, Ed) < terminate_constant) => loop_running'
       /\ pc = "body" => loop_running']_vars

\* C4 witness: in the middle of its second pass the loop is running although
\* the counter is >= the constant: the first pass met that value halfway too
\* and ended below the constant.
C4_Witness ==
    /\ pc = "body"
    /\ body_idx = 2
    /\ loop_count = 2
    /\ loop_running
    /\ CounterValue(ver, Ed) >= terminate_constant

\* the first address the loop header names: the counter it initialises
HeaderCounter == Split(Replace(loop_header, Lit(ver, "kaj>:eaa ", "KAJ>:EAA "), ""), " ")[1]

\* C5 as claimed: after a header was parsed, the test stops the loop exactly
\* when the counter that header names is >= the constant.
C5_TestReadsHeaderCounter ==
    [][(pc = "test" /\ in_loop)
       => (loop_running' = FALSE
             <=> GetTargetValue(ver, Ed, HeaderCounter).val >= terminate_constant)]_vars

\* C5 as amended: whatever address the header names, the test stops the loop
\* exactly when the cell of the fixed address P2M81, P00281, is >= the
\* constant; no other cell is read.
C5_TestReadsFixedCounter ==
    [][pc = "test"
       => (loop_running' = FALSE
             <=> MapGet(editor_memory, "P00281") >= terminate_constant)]_vars

\* C5 witness: a loop whose header names P2M83 has stopped on P2M81, while the
\* cell of P2M83 is below the constant.
C5_Witness ==
    /\ pc = "fetch"
    /\ loop_count >= 1
    /\ ~loop_running
    /\ HeaderCounter = "P2M83"
    /\ GetTargetValue(ver, Ed, "P2M83").val < terminate_constant
    /\ MapGet(editor_memory, "P00281") >= terminate_constant

\* C6: a line written in small letters and the same line written in capitals
\* leave the same cells and end alike (both go on, or both leave by the same
\* exception), as a line of the program and as a line of the body.
C6_CaseInsensitive ==
    /\ pc = "fetch" =>
          \A l \in BaseLines :
              Cells(AfterLine(ver, Ed, LowerS(l), in_loop_body))
                = Cells(AfterLine(ver, Ed, UpperS(l), in_loop_body))
    /\ pc = "body" =>
          Cells(ExecLine(ver, Ed, LowerS(loop_body[body_idx])))
            = Cells(ExecLine(ver, Ed, UpperS(loop_body[body_idx])))

\* the addresses C7 reads
ProbeTargets == {"P2M81", "P281", "P00281", "P2M83", "P1X", "P0010", "P1", "C:F", "D:F"}

\* the cell of an address: "P" and the padded run of its digits and wildcard
\* markers, or the record of a disk address
CellOf(t) ==
    IF StartsWith(t, "P")
    THEN LET run == Filter(t, (DOMAIN DigitTable) \cup {"X"})
         IN "P" \o ZFill(run, Len(run) + 2)
    ELSE ConfigFile(t)

\* C7: a read of an address returns the value of the last completed write to
\* its cell, and 0 when the cell was not written since the last clear.
C7_ReadSeesLastWrite ==
    \A t \in ProbeTargets :
        GetTargetValue(ver, Ed, t) = [err |-> "none", val |-> MapGet(last_write, CellOf(t))]

\* C7 witness: the counter's cell was overwritten through one address and
\* accumulated upon through another, and a read through either returns the
\* last value.
C7_Witness ==
    /\ "P00281" \in DOMAIN last_write
    /\ last_write["P00281"] = 2
    /\ GetTargetValue(ver, Ed, "P2M81").val = 2
    /\ GetTargetValue(ver, Ed, "P281").val = 2

\* after a set of the wildcard address t to delta: each of the ten concrete
\* addresses reads delta, and no cell but their ten canonical cells changed
TenCellsWritten(before, after, t, delta) ==
    /\ \A i \in 1..10 : GetTargetValue(ver, after, Concrete(t)[i]) = [err |-> "none", val |-> delta]
    /\ \A k \in (DOMAIN after.editor_memory) \ {CellOf(Concrete(t)[i]) : i \in 1..10} :
           k \in DOMAIN before.editor_memory
             /\ after.editor_memory[k] = before.editor_memory[k]

\* C8: a set line whose target holds one wildcard marker, read by run_program
\* or executed in the body, leaves delta in each of the ten concrete cells
\* and changes no other cell.
C8_WildcardSetWritesTenCells ==
    [][/\ \A l \in Lines(ver) :
              (/\ Reads(l, "set")
               /\ OneWildcard(SetTargetOf(Strip(l)))
               /\ raised' = "none"
               /\ Install(OrdinarySet(ver, Ed, Strip(l))))
              => TenCellsWritten(Ed, Ed', SetTargetOf(Strip(l)), SetDeltaOf(ver, Strip(l)))
       /\ (/\ pc = "body"
           /\ BodyKind(ver, loop_body[body_idx]) = "set"
           /\ OneWildcard(SetTargetOf(BodyLine))
           /\ raised' = "none")
          => TenCellsWritten(Ed, Ed', SetTargetOf(BodyLine), SetDeltaOf(ver, BodyLine))]_vars

\* C9: a directive that writes a disk address never fails for want of the
\* volume directory, whether or not a setup directive ran before it.
C9_DiskWriteSucceeds == raised # "FileNotFoundError"

\* C10: executing an increment-marker line of the body raises nothing and
\* leaves the marker one above its value before.
C10_MarkerIncrements ==
    [][(pc = "body" /\ BodyKind(ver, loop_body[body_idx]) = "marker")
       => /\ raised' = "none"
          /\ GetTargetValue(ver, Ed', Split(BodyLine, Lit(ver, "u ", "U "))[2]).val
               = GetTargetValue(ver, Ed, Split(BodyLine, Lit(ver, "u ", "U "))[2]).val + 1]_vars

\* the lines of the pool written as the setup line `sjxeaflist <param> ...`
SetupLines10 == {l \in Lines10 : StartsWith(LowerS(Strip(l)), "sjxeaflist ")}

SetupLines11 == {l \in Lines11 : StartsWith(LowerS(Strip(l)), "sjxeaflist ")}

SetupLines(v) == IF v = 11 THEN SetupLines11 ELSE SetupLines10

\* the address a setup parameter names, ADDR of ADDR-C or the bare ADDR
ParamAddr(param) == Split(param, "-")[1]

\* the value a setup parameter asks for: the code point of C as written, or 0
ParamValue(param) ==
    IF Contains(param, "-") THEN Ord(Split(param, "-")[2]) ELSE 0

\* no cell outside touched differs between the editors before and after
OnlyTouched(before, after, touched) ==
    /\ \A k \in ((DOMAIN after.editor_memory) \cup (DOMAIN before.editor_memory)) \ touched :
           /\ k \in DOMAIN after.editor_memory
           /\ k \in DOMAIN before.editor_memory
           /\ after.editor_memory[k] = before.editor_memory[k]
    /\ \A k \in ((DOMAIN after.files) \cup (DOMAIN before.files)) \ touched :
           /\ k \in DOMAIN after.files
           /\ k \in DOMAIN before.files
           /\ after.files[k] = before.files[k]

\* C11: a setup line read in Idle raises nothing, leaves in the cell of every
\* parameter ADDR-C the code point of C as written and in the cell of every
\* bare parameter 0, and changes no other cell.
C11_SetupBindsParameters ==
    (pc = "fetch" /\ ~in_loop_body) =>
        \A l \in SetupLines(ver) :
            LET after == AfterLine(ver, Ed, l, FALSE)
                params == SetupParams(Strip(l))
            IN /\ after.err = "none"
               /\ \A i \in 1..Len(params) :
                      GetTargetValue(ver, after, ParamAddr(params[i]))
                        = [err |-> "none", val |-> ParamValue(params[i])]
               /\ OnlyTouched(Ed, after,
                              {CellOf(ParamAddr(params[i])) : i \in 1..Len(params)})

\* the addresses and the deltas the claims about single writes range over
WriteTargets == {"P2M81", "P281", "P1X", "C:F", "Q1"}

Deltas == {-1, 0, 2}

\* the last call made on the storage
LastCall == calls[Len(calls)]

\* C12: from a cell just overwritten with 0, an accumulating write of d1
\* followed by one of d2 leaves the cells, and so the value of the address,
\* as the single accumulating write of d1 + d2 does.
C12_AccumulateComposes ==
    \A a \in WriteTargets :
        LET zeroed == SetTargetValue(ver, Ed, a, 0, FALSE)
        IN \A d1 \in Deltas, d2 \in Deltas :
               LET twice == SetTargetValue(ver, SetTargetValue(ver, zeroed, a, d1, TRUE),
                                           a, d2, TRUE)
                   once == SetTargetValue(ver, zeroed, a, d1 + d2, TRUE)
               IN /\ Cells(twice) = Cells(once)
                  /\ zeroed.err = "none" =>
                         GetTargetValue(ver, twice, a) = [err |-> "none", val |-> d1 + d2]

\* C12 witness: on a new editor, whose cells all read 0, two accumulating
\* writes of 2 and of -1 to one address were made, and the address reads 1.
C12_Witness ==
    /\ Len(calls) = 2
    /\ \A i \in 1..2 : calls[i].op = "write" /\ calls[i].target = "P2M81" /\ calls[i].is_update
    /\ calls[1].value = 2
    /\ calls[2].value = -1
    /\ GetTargetValue(ver, Ed, "P2M81") = [err |-> "none", val |-> 1]

\* address tokens: memory addresses, one with a wildcard marker, disk addresses
AddressTokens == {"P1", "P2M81", "P0300", "P1X", "C:F", "D:F"}

\* the canonical form _set_target_value computes: target.upper(), then _pad_address
Canonicalize(v, a) == PadAddress(v, Norm(v, a))

\* C13: canonicalizing a canonical address gives it back, for memory and for
\* disk addresses, and for each address a wildcard address expands to.
C13_CanonicalizeIdempotent ==
    \A a \in AddressTokens :
        /\ Canonicalize(ver, Canonicalize(ver, a)) = Canonicalize(ver, a)
        /\ \A i \in DOMAIN ResolveDynamicAddr(ver, a) :
               Canonicalize(ver, ResolveDynamicAddr(ver, a)[i]) = ResolveDynamicAddr(ver, a)[i]

\* combinator expressions: empty, single marks, groupings, nestings and
\* reorderings of the same marks, and marks written in capitals
Expressions == {"", "pov", "pom", "pom-pom(pov", "pov(pom-pom", "(pom(pom))-pov",
                "pov-pov(pom(pom", "pom-pov-pom-pov", "POV", "Pov-poM"}

\* how often the letter c, in either case, occurs in s
MarkCount(s, c) == Len(Filter(UpperS(s), {c}))

\* C14: the delta of an expression is the number of its V characters minus
\* the number of its M characters, counted without regard to case, grouping,
\* nesting or order; the empty expression gives 0.
C14_DeltaIsMarkCount ==
    \A x \in Expressions :
        ParseOperation(ver, x) = MarkCount(x, "V") - MarkCount(x, "M")

\* C15: while a body is being collected, reading a line other than the
\* body-close delimiter executes nothing: the cells, the directories, the
\* termination constant and the running flag stay as they are and nothing is
\* raised; the body buffer gains at most that line, at its end. (A step that
\* leaves pc at "body" or "test" is the one that read the body-close delimiter.)
C15_CollectingExecutesNothing ==
    [][(/\ pc = "fetch"
        /\ in_loop_body
        /\ nread' # nread
        /\ pc' \notin {"body", "test"})
       => /\ UNCHANGED <<editor_memory, files, dirs, terminate_constant, loop_running>>
          /\ raised' = "none"
          /\ \/ loop_body' = loop_body
             \/ \E l \in Lines(ver) : loop_body' = Append(loop_body, Strip(l))]_vars

\* a loop header of the pool in the documented format
\* `kaj>:eaa ADDR1 EXPR1 {g CONST]:eau ADDR3`, as each build spells it
DocumentedHeader(v) == Lit(v, "kaj>:eaa P2M81 pov-pom {g 3]:eau P2M30",
                              "KAJ>:EAA P2M81 POV-POM {G 3]:EAU P2M30")

\* C16: read in Idle, a loop header in the documented format raises nothing,
\* leaves the delta of EXPR1 (0 for pov-pom) in ADDR1 and CONST (3) in the
\* termination constant, and the running flag stays false.
C16_DocumentedHeaderParses ==
    (pc = "fetch" /\ ~in_loop_body) =>
        LET after == AfterLine(ver, Ed, DocumentedHeader(ver), FALSE)
        IN /\ Classify(ver, DocumentedHeader(ver), FALSE) = "header"
           /\ after.err = "none"
           /\ GetTargetValue(ver, after, "P2M81") = [err |-> "none", val |-> 0]
           /\ after.terminate_constant = 3
           /\ ~loop_running

\* C17: the running flag rises only when the body-close delimiter is read
\* while a body is collected, and falls only when the loop's test stops it,
\* which puts the loader back in Idle with an empty body buffer; the flag is
\* false whenever a program line is about to be read, and outside a body the
\* buffer is empty, so a later block starts from an empty buffer.
C17_RunningOnlyWhileLooping ==
    [][/\ (pc = "fetch" => ~loop_running)
       /\ (pc' = "fetch" => ~loop_running')
       /\ ((pc = "fetch" /\ ~in_loop_body) => loop_body = <<>>)
       /\ ((pc' = "fetch" /\ ~in_loop_body') => loop_body' = <<>>)
       /\ ((~loop_running /\ loop_running')
             => /\ pc = "fetch" /\ in_loop_body
                /\ pc' \in {"body", "test"} /\ ~in_loop_body'
                /\ loop_body' = loop_body)
       /\ ((loop_running /\ ~loop_running')
             => /\ pc = "test" /\ TestStops(ver, Ed)
                /\ pc' = "fetch" /\ ~in_loop_body'
                /\ loop_body' = <<>>)]_vars

\* C17 witness: a loop with a body of one line has run and stopped, and a
\* later body-open has been read: a body is collected again, into an empty
\* buffer, with the running flag false.
C17_Witness ==
    /\ pc = "fetch"
    /\ nread = 4
    /\ loop_count = 1
    /\ body_idx = 2
    /\ in_loop_body
    /\ ~loop_running
    /\ loop_body = <<>>

\* C18: the step that activates the loop starts pass 1 at the first line of
\* the body; every step inside a pass executes the next line of the body and
\* applies its writes; the test is reached only behind the last line; and the
\* flag falls only at a test, so never before a full pass, whatever the
\* counter held at activation.
C18_BodyRunsBeforeFirstTest ==
    [][/\ ((~loop_running /\ loop_running')
             => /\ loop_count' = 1
                /\ body_idx' = 1
                /\ pc' = IF Len(loop_body') = 0 THEN "test" ELSE "body")
       /\ (pc = "body"
             => /\ body_idx' = body_idx + 1
                /\ raised' = "none"
                     => /\ editor_memory' = ExecLine(ver, Ed, loop_body[body_idx]).editor_memory
                        /\ files' = ExecLine(ver, Ed, loop_body[body_idx]).files
                        /\ pc' = IF body_idx = Len(loop_body) THEN "test" ELSE "body")
       /\ (pc' = "test" => body_idx' = Len(loop_body') + 1)
       /\ ((loop_running /\ ~loop_running') => (pc = "test" /\ loop_count >= 1))]_vars

\* C18 witness: a loop activated with the counter already >= the constant
\* has executed its one body line, which added 1 to the counter, and was
\* stopped by the test after that first pass.
C18_Witness ==
    /\ pc = "fetch"
    /\ nread = 3
    /\ ~loop_running
    /\ loop_count = 1
    /\ body_idx = 2
    /\ entry_counter >= terminate_constant
    /\ CounterValue(ver, Ed) = entry_counter + 1

\* address tokens a write may be handed that are no memory or disk address,
\* or are one only once upper-cased
OddTargets == {"Q1", "CN1", "E:F", "", "p1", "c:f"}

\* C19: a write, overwriting or accumulating, to an address whose read
\* raises the unsupported-address error raises that error and leaves the
\* memory mapping, the records and the directories as they were: for every
\* such write that could be made now, and for the call a step makes.
C19_RejectedWriteChangesNothing ==
    [][/\ \A t \in OddTargets \cup CallTargets, d \in Deltas, u \in BOOLEAN :
              GetTargetValue(ver, Ed, t).err = "ValueError"
                => LET after == SetTargetValue(ver, Ed, t, d, u)
                   IN /\ after.err = "ValueError"
                      /\ after.editor_memory = editor_memory
                      /\ after.files = files
                      /\ after.dirs = dirs
       /\ (/\ calls' # calls
           /\ LastCall'.op = "write"
           /\ GetTargetValue(ver, Ed, LastCall'.target).err = "ValueError")
          => /\ raised' = "ValueError"
             /\ UNCHANGED <<editor_memory, files, dirs>>]_vars

\* C19 witness: a cell was written, then a write to the unsupported address
\* Q1 was rejected, and the cell is still there with the value written.
C19_Witness ==
    /\ Len(calls) = 2
    /\ calls[1] = [op |-> "write", target |-> "P2M81", value |-> 2, is_update |-> FALSE]
    /\ calls[2].op = "write"
    /\ calls[2].target = "Q1"
    /\ raised = "ValueError"
    /\ editor_memory = MapPut(EmptyMap, "P00281", 2)

\* memory address tokens: with and without letters, with leading zeros, with
\* the wildcard marker in two places and in small print
MemoryTokens == {"P2M81", "P281", "P0281", "P1", "P1X", "PX1", "P1x"}

\* the digits and wildcard markers of a memory address in their order, taken
\* from the token as the build reads it
DigitRun(v, a) == Filter(Norm(v, a), (DOMAIN DigitTable) \cup {"X"})

\* C20: two memory addresses select one cell exactly when their runs of digits
\* and wildcard markers are equal, letters apart: a value written through one
\* (99, which no cell holds) is read through the other exactly then, and the
\* write a step makes is seen through every address of the same run and
\* through no other.
C20_CellIsDigitRun ==
    [][/\ \A a \in MemoryTokens :
              LET written == SetTargetValue(ver, Ed, a, 99, FALSE)
              IN \A b \in MemoryTokens :
                     (GetTargetValue(ver, written, b) = [err |-> "none", val |-> 99])
                       <=> (DigitRun(ver, a) = DigitRun(ver, b))
       /\ (/\ calls' # calls
           /\ LastCall'.op = "write"
           /\ LastCall'.target \in MemoryTokens
           /\ ~LastCall'.is_update)
          => \A b \in MemoryTokens :
                 GetTargetValue(ver, Ed', b).val
                   = IF DigitRun(ver, b) = DigitRun(ver, LastCall'.target)
                     THEN LastCall'.value
                     ELSE GetTargetValue(ver, Ed, b).val]_vars

\* C20 witness: 2 was written through P281 and is read through P2M81, while
\* P0281, whose run has a leading zero, still reads 0.
C20_Witness ==
    /\ Len(calls) = 1
    /\ calls[1] = [op |-> "write", target |-> "P281", value |-> 2, is_update |-> FALSE]
    /\ GetTargetValue(ver, Ed, "P2M81") = [err |-> "none", val |-> 2]
    /\ GetTargetValue(ver, Ed, "P0281") = [err |-> "none", val |-> 0]

====
